---- MODULE Spec2Model ----
(***************************************************************************)
(* A model of the viewer's Camera (src/viewer/camera.js): the view frame   *)
(* (eye, target, up), the world axis, the two rotation flags, the         *)
(* projection selection and the lazily rebuilt view matrices.             *)
(*                                                                         *)
(* Numbers.  The camera computes with floats.  Here every float is a      *)
(* fixed-point integer counting thousandths: the float 1.0 is One, and    *)
(* every product, quotient and square root is rounded to the nearest      *)
(* thousandth.  Angles in degrees stay plain integers; Math.sin, Math.cos *)
(* and Math.tan of degrees times 0.0174532925 are tabulated.  The         *)
(* gl-matrix routines the camera calls (on vec3, mat4 and mat3) are        *)
(* written out as operators that compute what the library computes, in    *)
(* this arithmetic.                                                        *)
(***************************************************************************)
EXTENDS Integers, Sequences, FiniteSets, TLC

\* this (the Camera), its viewer, the module-level scratch matrix tempMat4,
\* and the history of the run: the camera and viewer as they were before the
\* last call (pre), the last call and what it computed (op), the number of
\* calls made so far (nops) and the number of calls the run may make (limit).
VARIABLES cam, viewer, tempMat4, pre, op, nops, limit

vars == <<cam, viewer, tempMat4, pre, op, nops, limit>>

-----------------------------------------------------------------------------
\* Fixed-point arithmetic

\* The float 1.0 (this._worldScale = 1.0).
One == 1000

\* Longest run of calls explored from a fresh camera: over the whole interface,
\* over the two pitch methods alone, over the four rotations and their flags.
MaxOps == 2

MaxPitchOps == 4

MaxRotOps == 3

Abs(n) == IF n < 0 THEN -n ELSE n

\* n / d rounded to the nearest integer, halves away from zero (d > 0).
RDivPos(n, d) == IF n >= 0 THEN (2 * n + d) \div (2 * d) ELSE -((2 * (-n) + d) \div (2 * d))

\* n / d rounded to the nearest integer, for any d # 0.
RDiv(n, d) == IF d > 0 THEN RDivPos(n, d) ELSE RDivPos(-n, -d)

\* a * b of two fixed-point numbers.
Mul(a, b) == RDiv(a * b, One)

\* a / b of two fixed-point numbers (b # 0).
Div(a, b) == RDiv(a * One, b)

RECURSIVE SqrtSearch(_, _, _)
\* The largest r in lo..hi with r * r <= n (lo * lo <= n < (hi + 1) * (hi + 1)).
SqrtSearch(n, lo, hi) ==
    IF lo >= hi THEN lo
    ELSE LET mid == (lo + hi + 1) \div 2
         IN  IF mid * mid <= n THEN SqrtSearch(n, mid, hi) ELSE SqrtSearch(n, lo, mid - 1)

\* Math.sqrt of an integer, rounded to the nearest integer.
ISqrt(n) ==
    LET r == SqrtSearch(n, 0, 46340)
    IN  IF n - r * r > r THEN r + 1 ELSE r

\* 0-based access, as the source indexes its Float32Arrays.
At(m, i) == m[i + 1]

-----------------------------------------------------------------------------
\* Tabulated trigonometry: Math.cos / Math.sin / Math.tan of degrees * 0.0174532925

CosDeg(d) ==
    CASE d = 0 -> 1000 [] d = 1 -> 1000 [] d = -1 -> 1000
      [] d = 30 -> 866 [] d = -30 -> 866
      [] d = 60 -> 500 [] d = -60 -> 500
      [] d = 88 -> 35 [] d = 89 -> 17
      [] d = 90 -> 0 [] d = -90 -> 0
      [] d = 180 -> -1000

SinDeg(d) ==
    CASE d = 0 -> 0 [] d = 1 -> 17 [] d = -1 -> -17
      [] d = 30 -> 500 [] d = -30 -> -500
      [] d = 60 -> 866 [] d = -60 -> -866
      [] d = 88 -> 999 [] d = 89 -> 1000
      [] d = 90 -> 1000 [] d = -90 -> -1000
      [] d = 180 -> 0

\* Math.tan(90 * 0.0174532925) is about 5.57e8, beyond the integers at hand;
\* the entry for 90 is large enough that every quotient by it rounds to 0, as
\* the true quotient does at this resolution.
TanDeg(d) ==
    CASE d = 30 -> 577 [] d = 45 -> 1000 [] d = 60 -> 1732 [] d = 90 -> 1000000000

-----------------------------------------------------------------------------
\* gl-matrix vec3

Vec3(x, y, z) == <<x, y, z>>

Subtract(a, b) == <<a[1] - b[1], a[2] - b[2], a[3] - b[3]>>

Add(a, b) == <<a[1] + b[1], a[2] + b[2], a[3] + b[3]>>

Scale(a, s) == <<Mul(a[1], s), Mul(a[2], s), Mul(a[3], s)>>

SqrLen(a) == a[1] * a[1] + a[2] * a[2] + a[3] * a[3]

\* vec3.length
Length(a) == ISqrt(SqrLen(a))

\* vec3.dot
Dot(a, b) == RDiv(a[1] * b[1] + a[2] * b[2] + a[3] * b[3], One)

\* vec3.cross
Cross(a, b) ==
    << RDiv(a[2] * b[3] - a[3] * b[2], One),
       RDiv(a[3] * b[1] - a[1] * b[3], One),
       RDiv(a[1] * b[2] - a[2] * b[1], One) >>

\* vec3.normalize: a vector of length 0 is left as zeros.
Normalize(a) ==
    LET len == Length(a)
    IN  IF len > 0 THEN <<Div(a[1], len), Div(a[2], len), Div(a[3], len)>>
        ELSE <<0, 0, 0>>

\* vec3.transformMat4: m * [x, y, z, 1], divided by w (w || 1.0).
TransformMat4(a, m) ==
    LET x == a[1]
        y == a[2]
        z == a[3]
        w0 == RDiv(At(m, 3) * x + At(m, 7) * y + At(m, 11) * z + At(m, 15) * One, One)
        w == IF w0 = 0 THEN One ELSE w0
    IN  << RDiv(At(m, 0) * x + At(m, 4) * y + At(m, 8) * z + At(m, 12) * One, w),
           RDiv(At(m, 1) * x + At(m, 5) * y + At(m, 9) * z + At(m, 13) * One, w),
           RDiv(At(m, 2) * x + At(m, 6) * y + At(m, 10) * z + At(m, 14) * One, w) >>

-----------------------------------------------------------------------------
\* gl-matrix mat4 / mat3 (column-major, 0-based through At)

\* mat4.create / mat4.identity
Mat4Identity == <<One, 0, 0, 0,  0, One, 0, 0,  0, 0, One, 0,  0, 0, 0, One>>

\* mat3.create
Mat3Identity == <<One, 0, 0,  0, One, 0,  0, 0, One>>

\* mat4.fromRotation(out, rad, axis) with rad = degrees * 0.0174532925: the
\* new content of out.  An axis shorter than EPSILON makes the library return
\* null and leave out as it was.
FromRotation(out, degrees, axis) ==
    LET len == Length(axis)
    IN  IF len = 0 THEN out
        ELSE LET x == Div(axis[1], len)
                 y == Div(axis[2], len)
                 z == Div(axis[3], len)
                 s == SinDeg(degrees)
                 c == CosDeg(degrees)
                 t == One - c
             IN  << Mul(Mul(x, x), t) + c,
                    Mul(Mul(y, x), t) + Mul(z, s),
                    Mul(Mul(z, x), t) - Mul(y, s),
                    0,
                    Mul(Mul(x, y), t) - Mul(z, s),
                    Mul(Mul(y, y), t) + c,
                    Mul(Mul(z, y), t) + Mul(x, s),
                    0,
                    Mul(Mul(x, z), t) + Mul(y, s),
                    Mul(Mul(y, z), t) - Mul(x, s),
                    Mul(Mul(z, z), t) + c,
                    0,
                    0, 0, 0, One >>

\* mat4.lookAt(out, eye, center, up)
LookAt(eye, center, up) ==
    IF eye = center THEN Mat4Identity
    ELSE LET z == Normalize(Subtract(eye, center))
             x == Normalize(Cross(up, z))
             y == Normalize(Cross(z, x))
         IN  << x[1], y[1], z[1], 0,
                x[2], y[2], z[2], 0,
                x[3], y[3], z[3], 0,
                -Dot(x, eye), -Dot(y, eye), -Dot(z, eye), One >>

\* mat4.scale(out, a, v)
Mat4Scale(a, v) ==
    [i \in 1..16 |->
        IF i <= 4 THEN Mul(a[i], v[1])
        ELSE IF i <= 8 THEN Mul(a[i], v[2])
        ELSE IF i <= 12 THEN Mul(a[i], v[3])
        ELSE a[i]]

\* mat4.multiply(out, a, b): out[col * 4 + row] = sum over k of a[k * 4 + row] * b[col * 4 + k]
Mat4Multiply(a, b) ==
    [i \in 1..16 |->
        LET row == (i - 1) % 4
            col == (i - 1) \div 4
        IN  RDiv(At(a, row) * At(b, col * 4) + At(a, 4 + row) * At(b, col * 4 + 1)
                 + At(a, 8 + row) * At(b, col * 4 + 2) + At(a, 12 + row) * At(b, col * 4 + 3),
                 One)]

\* mat3.fromMat4(out, a)
Mat3FromMat4(a) ==
    << At(a, 0), At(a, 1), At(a, 2),
       At(a, 4), At(a, 5), At(a, 6),
       At(a, 8), At(a, 9), At(a, 10) >>

\* mat3.invert(out, a): the new content of out.  A zero determinant makes the
\* library return null and leave out as it was.
Mat3Invert(out, a) ==
    LET a00 == At(a, 0)
        a01 == At(a, 1)
        a02 == At(a, 2)
        a10 == At(a, 3)
        a11 == At(a, 4)
        a12 == At(a, 5)
        a20 == At(a, 6)
        a21 == At(a, 7)
        a22 == At(a, 8)
        b01 == Mul(a22, a11) - Mul(a12, a21)
        b11 == Mul(a12, a20) - Mul(a22, a10)
        b21 == Mul(a21, a10) - Mul(a11, a20)
        det == Mul(a00, b01) + Mul(a01, b11) + Mul(a02, b21)
    IN  IF det = 0 THEN out
        ELSE << Div(b01, det),
                Div(Mul(a02, a21) - Mul(a22, a01), det),
                Div(Mul(a12, a01) - Mul(a02, a11), det),
                Div(b11, det),
                Div(Mul(a22, a00) - Mul(a02, a20), det),
                Div(Mul(a02, a10) - Mul(a12, a00), det),
                Div(b21, det),
                Div(Mul(a01, a20) - Mul(a21, a00), det),
                Div(Mul(a11, a00) - Mul(a01, a10), det) >>

\* mat3.transpose(out, a)
Mat3Transpose(a) ==
    << At(a, 0), At(a, 3), At(a, 6),
       At(a, 1), At(a, 4), At(a, 7),
       At(a, 2), At(a, 5), At(a, 8) >>

-----------------------------------------------------------------------------
\* The Camera

\* The two projection strategies built by the constructor (perspective.js and
\* orthographic.js); only their type is read here.
Perspective == [type |-> "perspective"]

Orthographic == [type |-> "orthographic"]

\* 0.0174532925, the degrees-to-radians factor, as DegToRadNum / DegToRadDen.
DegToRadNum == 1745

DegToRadDen == 100000

\* x / 0.0174532925 of a fixed-point x.
OverDegToRad(x) == RDiv(x * DegToRadDen, DegToRadNum)

\* An argument left out of a call (undefined).
NoArg == <<>>

\* new Camera(viewer)
Camera ==
    [ _projection       |-> Perspective,
      _viewMatrix       |-> Mat4Identity,
      _viewNormalMatrix |-> Mat3Identity,
      _worldScale       |-> One,
      _eye              |-> Vec3(0, 0, -10 * One),
      _target           |-> Vec3(0, 0, 0),
      _up               |-> Vec3(0, One, 0),
      _worldAxis        |-> <<One, 0, 0,  0, One, 0,  0, 0, One>>,
      _worldUp          |-> Vec3(0, One, 0),
      _worldRight       |-> Vec3(One, 0, 0),
      _worldForward     |-> Vec3(0, 0, -One),
      _gimbalLock       |-> TRUE,
      _constrainPitch   |-> TRUE,
      _dirty            |-> TRUE ]

\* The methods below map a world w = [cam, viewer, tempMat4, out] to the world
\* after the call; out is what the call returned or, for the pitch methods, the
\* candidate it computed.

\* _setDirty()
_setDirty(w) == [w EXCEPT !.cam._dirty = TRUE, !.viewer.dirty = TRUE]

\* _build()
_build(w) ==
    IF w.cam._dirty
    THEN LET look   == LookAt(w.cam._eye, w.cam._target, w.cam._up)
             scale  == Vec3(w.cam._worldScale, w.cam._worldScale, w.cam._worldScale)
             tmp    == Mat4Scale(Mat4Identity, scale)
             view   == Mat4Multiply(tmp, look)
             m3     == Mat3FromMat4(view)
             inv    == Mat3Invert(m3, m3)
         IN  [w EXCEPT !.cam._viewMatrix = view,
                       !.cam._viewNormalMatrix = Mat3Transpose(inv),
                       !.cam._dirty = FALSE,
                       !.tempMat4 = tmp]
    ELSE w

\* set worldScale(worldScale)
set_worldScale(w, worldScale) ==
    _setDirty([w EXCEPT !.cam._worldScale = IF worldScale = 0 THEN One ELSE worldScale])

\* get viewMatrix()
get_viewMatrix(w) ==
    LET b == IF w.cam._dirty THEN _build(w) ELSE w
    IN  [b EXCEPT !.out = b.cam._viewMatrix]

\* get viewNormalMatrix()
get_viewNormalMatrix(w) ==
    LET b == IF w.cam._dirty THEN _build(w) ELSE w
    IN  [b EXCEPT !.out = b.cam._viewNormalMatrix]

\* set projectionType as it would be if an unsupported token fell back to
\* the perspective projection.
set_projectionType_fallback(w, projectionType) ==
    CASE projectionType = "orthographic" -> [w EXCEPT !.cam._projection = Orthographic]
      [] OTHER -> [w EXCEPT !.cam._projection = Perspective]

\* set projectionType(projectionType)
set_projectionType(w, projectionType) ==
    CASE projectionType = "perspective"  -> [w EXCEPT !.cam._projection = Perspective]
      [] projectionType = "orthographic" -> [w EXCEPT !.cam._projection = Orthographic]
      [] OTHER -> [w EXCEPT !.out = <<"console.log", "Unsupported projectionType: ", projectionType>>]

\* get projectionType()
get_projectionType(w) == w.cam._projection.type

\* set eye(eye)
set_eye(w, eye) ==
    _setDirty([w EXCEPT !.cam._eye = IF eye = NoArg THEN Vec3(0, 0, -10 * One) ELSE eye])

\* set target(target)
set_target(w, target) ==
    _setDirty([w EXCEPT !.cam._target = IF target = NoArg THEN Vec3(0, 0, 0) ELSE target])

\* set up(up)
set_up(w, up) ==
    _setDirty([w EXCEPT !.cam._up = IF up = NoArg THEN Vec3(0, One, 0) ELSE up])

\* set gimbalLock(gimbalLock)
set_gimbalLock(w, gimbalLock) == [w EXCEPT !.cam._gimbalLock = gimbalLock]

\* set constrainPitch(constrainPitch)
set_constrainPitch(w, constrainPitch) == [w EXCEPT !.cam._constrainPitch = constrainPitch]

\* set worldAxis(worldAxis)
set_worldAxis(w, worldAxis) ==
    LET axis == IF worldAxis = NoArg THEN <<One, 0, 0,  0, One, 0,  0, 0, One>> ELSE worldAxis
    IN  _setDirty([w EXCEPT !.cam._worldAxis = axis,
                            !.cam._worldRight = Vec3(At(axis, 0), At(axis, 1), At(axis, 2)),
                            !.cam._worldUp = Vec3(At(axis, 3), At(axis, 4), At(axis, 5)),
                            !.cam._worldForward = Vec3(At(axis, 6), At(axis, 7), At(axis, 8))])

\* orbitYaw as it would be if it forgot to rotate up.
orbitYaw_upNotRotated(w, degrees) ==
    LET targetToEye == Subtract(w.cam._eye, w.cam._target)
        m == FromRotation(w.tempMat4, degrees,
                          IF w.cam._gimbalLock THEN w.cam._worldUp ELSE w.cam._up)
        rotated == TransformMat4(targetToEye, m)
    IN  _setDirty([w EXCEPT !.tempMat4 = m,
                            !.cam._eye = Add(w.cam._target, rotated)])

\* orbitYaw(degrees)
orbitYaw(w, degrees) ==
    LET targetToEye == Subtract(w.cam._eye, w.cam._target)
        m == FromRotation(w.tempMat4, degrees,
                          IF w.cam._gimbalLock THEN w.cam._worldUp ELSE w.cam._up)
        rotated == TransformMat4(targetToEye, m)
    IN  _setDirty([w EXCEPT !.tempMat4 = m,
                            !.cam._eye = Add(w.cam._target, rotated),
                            !.cam._up = TransformMat4(w.cam._up, m)])

\* orbitPitch(degrees)
orbitPitch(w, degrees) ==
    LET targetToEye == Subtract(w.cam._eye, w.cam._target)
        a == Normalize(targetToEye)
        b == Normalize(w.cam._up)
        axis == Cross(a, b)
        m == FromRotation(w.tempMat4, degrees, axis)
        rotated == TransformMat4(targetToEye, m)
        newUp == TransformMat4(w.cam._up, m)
        angle == OverDegToRad(Dot(newUp, w.cam._worldUp))
        seen == [w EXCEPT !.tempMat4 = m, !.out = [newUp |-> newUp, angle |-> angle]]
    IN  IF w.cam._constrainPitch /\ angle < One
        THEN seen
        ELSE _setDirty([seen EXCEPT !.cam._up = newUp,
                                    !.cam._eye = Add(w.cam._target, rotated)])

\* yaw as it would be if it never rotated up, gimbal lock or not.
yaw_upNotRotated(w, degrees) ==
    LET eyeToTarget == Subtract(w.cam._target, w.cam._eye)
        m == FromRotation(w.tempMat4, degrees,
                          IF w.cam._gimbalLock THEN w.cam._worldUp ELSE w.cam._up)
        rotated == TransformMat4(eyeToTarget, m)
    IN  _setDirty([w EXCEPT !.tempMat4 = m,
                            !.cam._target = Add(w.cam._eye, rotated)])

\* yaw(degrees)
yaw(w, degrees) ==
    LET eyeToTarget == Subtract(w.cam._target, w.cam._eye)
        m == FromRotation(w.tempMat4, degrees,
                          IF w.cam._gimbalLock THEN w.cam._worldUp ELSE w.cam._up)
        rotated == TransformMat4(eyeToTarget, m)
    IN  _setDirty([w EXCEPT !.tempMat4 = m,
                            !.cam._target = Add(w.cam._eye, rotated),
                            !.cam._up = IF w.cam._gimbalLock
                                        THEN TransformMat4(w.cam._up, m)
                                        ELSE w.cam._up])

\* pitch as it would be if the test against worldUp were left out.
pitch_unconstrained(w, degrees) ==
    LET eyeToTarget == Subtract(w.cam._target, w.cam._eye)
        axis == Cross(Normalize(eyeToTarget), Normalize(w.cam._up))
        m == FromRotation(w.tempMat4, degrees, axis)
        rotated == TransformMat4(eyeToTarget, m)
        newUp == TransformMat4(w.cam._up, m)
        angle == OverDegToRad(Dot(newUp, w.cam._worldUp))
    IN  _setDirty([w EXCEPT !.tempMat4 = m,
                            !.out = [newUp |-> newUp, angle |-> angle],
                            !.cam._up = newUp,
                            !.cam._target = Add(w.cam._eye, rotated)])

\* pitch as it would be if it marked the camera dirty before the test.
pitch_dirtyOnReject(w, degrees) ==
    LET eyeToTarget == Subtract(w.cam._target, w.cam._eye)
        axis == Cross(Normalize(eyeToTarget), Normalize(w.cam._up))
        m == FromRotation(w.tempMat4, degrees, axis)
        rotated == TransformMat4(eyeToTarget, m)
        newUp == TransformMat4(w.cam._up, m)
        angle == OverDegToRad(Dot(newUp, w.cam._worldUp))
        seen == _setDirty([w EXCEPT !.tempMat4 = m,
                                    !.out = [newUp |-> newUp, angle |-> angle]])
    IN  IF w.cam._constrainPitch /\ angle < One
        THEN seen
        ELSE [seen EXCEPT !.cam._up = newUp,
                          !.cam._target = Add(w.cam._eye, rotated)]

\* pitch(degrees)
pitch(w, degrees) ==
    LET eyeToTarget == Subtract(w.cam._target, w.cam._eye)
        a == Normalize(eyeToTarget)
        b == Normalize(w.cam._up)
        axis == Cross(a, b)
        m == FromRotation(w.tempMat4, degrees, axis)
        rotated == TransformMat4(eyeToTarget, m)
        newUp == TransformMat4(w.cam._up, m)
        angle == OverDegToRad(Dot(newUp, w.cam._worldUp))
        seen == [w EXCEPT !.tempMat4 = m, !.out = [newUp |-> newUp, angle |-> angle]]
    IN  IF w.cam._constrainPitch /\ angle < One
        THEN seen
        ELSE _setDirty([seen EXCEPT !.cam._up = newUp,
                                    !.cam._target = Add(w.cam._eye, rotated)])

\* pan(pan).  The scratch vector tempVec3 first holds eye - target; the branch
\* for pan[1] writes its scaled up vector into the same tempVec3, and the
\* branch for pan[2] then normalizes whatever tempVec3 holds.
pan(w, p) ==
    LET eyeToTarget == Subtract(w.cam._eye, w.cam._target)
        v0 == IF p[1] # 0
              THEN Scale(Cross(Normalize(eyeToTarget), Normalize(w.cam._up)), p[1])
              ELSE Vec3(0, 0, 0)
        v1 == IF p[2] # 0 THEN Scale(Normalize(w.cam._up), p[2]) ELSE Vec3(0, 0, 0)
        tempVec3 == IF p[2] # 0 THEN v1 ELSE eyeToTarget
        v2 == IF p[3] # 0 THEN Scale(Normalize(tempVec3), p[3]) ELSE Vec3(0, 0, 0)
        vec == Add(Add(v0, v1), v2)
    IN  _setDirty([w EXCEPT !.cam._eye = Add(w.cam._eye, vec),
                            !.cam._target = Add(w.cam._target, vec)])

\* zoom(delta)
zoom(w, delta) ==
    LET targetToEye == Scale(Normalize(Subtract(w.cam._eye, w.cam._target)), delta)
    IN  _setDirty([w EXCEPT !.cam._eye = Add(w.cam._eye, targetToEye),
                            !.cam._target = Add(w.cam._target, targetToEye)])

\* Math.tan of half the angle: tan(fitFOV / 2 degrees).
TanHalfDeg(d) ==
    CASE d = 45 -> 414 [] d = 60 -> 577 [] d = 90 -> 1000

\* viewFit as it would be if it took the tangent of half the field of view.
viewFit_halfAngle(w, aabb0, fitFOV0) ==
    LET aabb == IF aabb0 = NoArg THEN w.viewer.modelBounds ELSE aabb0
        fitFOV == IF fitFOV0 = 0 THEN 45 ELSE fitFOV0
        eyeToTarget == Normalize(Subtract(w.cam._eye, w.cam._target))
        diagonal == Length(Vec3(At(aabb, 3) - At(aabb, 0),
                                At(aabb, 4) - At(aabb, 1),
                                At(aabb, 5) - At(aabb, 2)))
        center == Vec3(RDiv(At(aabb, 3) + At(aabb, 0), 2),
                       RDiv(At(aabb, 4) + At(aabb, 1), 2),
                       RDiv(At(aabb, 5) + At(aabb, 2), 2))
        sca == Abs(Div(diagonal, TanHalfDeg(fitFOV)))
    IN  [w EXCEPT !.cam._target = center,
                  !.cam._eye = Add(center, Scale(eyeToTarget, sca))]

\* viewFit(aabb, fitFOV)
viewFit(w, aabb0, fitFOV0) ==
    LET aabb == IF aabb0 = NoArg THEN w.viewer.modelBounds ELSE aabb0
        fitFOV == IF fitFOV0 = 0 THEN 45 ELSE fitFOV0
        eyeToTarget == Normalize(Subtract(w.cam._eye, w.cam._target))
        diagonal == Length(Vec3(At(aabb, 3) - At(aabb, 0),
                                At(aabb, 4) - At(aabb, 1),
                                At(aabb, 5) - At(aabb, 2)))
        center == Vec3(RDiv(At(aabb, 3) + At(aabb, 0), 2),
                       RDiv(At(aabb, 4) + At(aabb, 1), 2),
                       RDiv(At(aabb, 5) + At(aabb, 2), 2))
        sca == Abs(Div(diagonal, TanDeg(fitFOV)))
    IN  [w EXCEPT !.cam._target = center,
                  !.cam._eye = Add(center, Scale(eyeToTarget, sca))]

-----------------------------------------------------------------------------
\* The arguments the calls are tried with

Angles == {-90, 1, 30, 88, 89, 90}

Eyes == {NoArg, Vec3(3 * One, 0, -4 * One)}

Targets == {NoArg, Vec3(0, 0, 2 * One)}

Ups == {NoArg, Vec3(0, 0, One)}

WorldScales == {0, 2 * One}

\* The default axis and a Z-up one.
WorldAxes == {NoArg, <<One, 0, 0,  0, 0, One,  0, -One, 0>>}

ProjectionTypes == {"perspective", "orthographic", "isometric"}

Pans == {Vec3(One, 0, 0), Vec3(0, 0, 5 * One), Vec3(0, One, One)}

Deltas == {2 * One, -One}

UnitBox == <<-One, -One, -One, One, One, One>>

Boxes == {NoArg, UnitBox}

FitFOVs == {0, 60, 90}

-----------------------------------------------------------------------------
\* The state machine

\* The world a call starts from.
World == [cam |-> cam, viewer |-> viewer, tempMat4 |-> tempMat4, out |-> NoArg]

\* A call may be made while the run has calls left.
MoreCalls == nops < limit

\* One call: the world moves to w2 and the history variables record the call.
Step(name, arg, w2) ==
    /\ cam' = w2.cam
    /\ viewer' = w2.viewer
    /\ tempMat4' = w2.tempMat4
    /\ pre' = [cam |-> cam, viewer |-> viewer]
    /\ op' = [name |-> name, arg |-> arg, out |-> w2.out]
    /\ nops' = nops + 1
    /\ limit' = limit

\* The viewer that owns the camera: its redraw flag and its scene bounds.
Viewer == [dirty |-> FALSE, modelBounds |-> <<0, 0, 0, 2 * One, 4 * One, 4 * One>>]

\* A fresh camera, with n calls to come.
Fresh(n) ==
    /\ cam = Camera
    /\ viewer = Viewer
    /\ tempMat4 = Mat4Identity
    /\ pre = [cam |-> Camera, viewer |-> Viewer]
    /\ op = [name |-> "new", arg |-> NoArg, out |-> NoArg]
    /\ nops = 0
    /\ limit = n

Init == Fresh(MaxOps)

SetWorldScale ==
    \E x \in WorldScales :
        /\ MoreCalls
        /\ Step("set worldScale", x, set_worldScale(World, x))

GetViewMatrix ==
    /\ MoreCalls
    /\ Step("get viewMatrix", NoArg, get_viewMatrix(World))

GetViewNormalMatrix ==
    /\ MoreCalls
    /\ Step("get viewNormalMatrix", NoArg, get_viewNormalMatrix(World))

SetProjectionType ==
    \E x \in ProjectionTypes :
        /\ MoreCalls
        /\ Step("set projectionType", x, set_projectionType(World, x))

SetEye ==
    \E x \in Eyes :
        /\ MoreCalls
        /\ Step("set eye", x, set_eye(World, x))

SetTarget ==
    \E x \in Targets :
        /\ MoreCalls
        /\ Step("set target", x, set_target(World, x))

SetUp ==
    \E x \in Ups :
        /\ MoreCalls
        /\ Step("set up", x, set_up(World, x))

SetGimbalLock ==
    \E x \in BOOLEAN :
        /\ MoreCalls
        /\ Step("set gimbalLock", x, set_gimbalLock(World, x))

SetConstrainPitch ==
    \E x \in BOOLEAN :
        /\ MoreCalls
        /\ Step("set constrainPitch", x, set_constrainPitch(World, x))

SetWorldAxis ==
    \E x \in WorldAxes :
        /\ MoreCalls
        /\ Step("set worldAxis", x, set_worldAxis(World, x))

OrbitYaw ==
    \E d \in Angles :
        /\ MoreCalls
        /\ Step("orbitYaw", d, orbitYaw(World, d))

OrbitPitch ==
    \E d \in Angles :
        /\ MoreCalls
        /\ Step("orbitPitch", d, orbitPitch(World, d))

Yaw ==
    \E d \in Angles :
        /\ MoreCalls
        /\ Step("yaw", d, yaw(World, d))

Pitch ==
    \E d \in Angles :
        /\ MoreCalls
        /\ Step("pitch", d, pitch(World, d))

Pan ==
    \E p \in Pans :
        /\ MoreCalls
        /\ Step("pan", p, pan(World, p))

Zoom ==
    \E d \in Deltas :
        /\ MoreCalls
        /\ Step("zoom", d, zoom(World, d))

ViewFit ==
    \E b \in Boxes, f \in FitFOVs :
        /\ MoreCalls
        /\ Step("viewFit", <<b, f>>, viewFit(World, b, f))

\* The viewer draws a frame and clears its redraw flag.
Render ==
    /\ MoreCalls
    /\ Step("render", NoArg, [World EXCEPT !.viewer.dirty = FALSE])

Next ==
    \/ SetWorldScale
    \/ GetViewMatrix
    \/ GetViewNormalMatrix
    \/ SetProjectionType
    \/ SetEye
    \/ SetTarget
    \/ SetUp
    \/ SetGimbalLock
    \/ SetConstrainPitch
    \/ SetWorldAxis
    \/ OrbitYaw
    \/ OrbitPitch
    \/ Yaw
    \/ Pitch
    \/ Pan
    \/ Zoom
    \/ ViewFit
    \/ Render

Spec == Init /\ [][Next]_vars

\* The two pitch methods alone, on a fresh camera (constrainPitch on, up = worldUp).
InitPitch == Fresh(MaxPitchOps)

NextPitch ==
    \/ OrbitPitch
    \/ Pitch

SpecPitch == InitPitch /\ [][NextPitch]_vars

\* The four rotations and the two flags that steer them, on a fresh camera
\* (up orthogonal to eye - target).
InitRot == Fresh(MaxRotOps)

NextRot ==
    \/ SetGimbalLock
    \/ SetConstrainPitch
    \/ OrbitYaw
    \/ OrbitPitch
    \/ Yaw
    \/ Pitch

SpecRot == InitRot /\ [][NextRot]_vars

-----------------------------------------------------------------------------
\* What the claims are stated with

\* Two vectors agree within tol in every component.
VecNear(a, b, tol) == \A i \in 1..3 : Abs(a[i] - b[i]) <= tol

\* v turned by the angle about the axis k0, by Rodrigues' formula:
\* v cos + (k x v) sin + k (k . v) (1 - cos), with k = k0 / |k0|.
RotateAbout(k0, degrees, v) ==
    LET k  == Normalize(k0)
        c  == CosDeg(degrees)
        s  == SinDeg(degrees)
        kv == Cross(k, v)
        kk == Mul(Dot(k, v), One - c)
    IN  Add(Add(Scale(v, c), Scale(kv, s)), Scale(k, kk))

\* The centre and the spatial diagonal of a box.
BoxCenter(b) ==
    Vec3(RDiv(At(b, 0) + At(b, 3), 2), RDiv(At(b, 1) + At(b, 4), 2), RDiv(At(b, 2) + At(b, 5), 2))

BoxDiagonal(b) == Length(Vec3(At(b, 3) - At(b, 0), At(b, 4) - At(b, 1), At(b, 5) - At(b, 2)))

\* The view matrix and the view-normal matrix of the camera's present eye,
\* target, up and worldScale, computed afresh.
Rebuilt == _build([World EXCEPT !.cam._dirty = TRUE]).cam

\* The arguments of the last viewFit, with the defaults filled in.
FitBox == IF op.arg[1] = NoArg THEN pre.viewer.modelBounds ELSE op.arg[1]

FitAngle == IF op.arg[2] = 0 THEN 45 ELSE op.arg[2]

\* Tolerances of the fixed-point arithmetic: a hundredth, and a hundredth per
\* unit of length of the vectors compared.
Tol == One \div 100

FrameTol == 10 * Tol

-----------------------------------------------------------------------------
\* C1 (stated as claimed; the code breaks it).  In every reachable state a
\* read of viewMatrix or of viewNormalMatrix returns the matrix computed from
\* the eye, target, up and worldScale held at the time of the read.
C1_ReadIsFresh ==
    /\ get_viewMatrix(World).out = Rebuilt._viewMatrix
    /\ get_viewNormalMatrix(World).out = Rebuilt._viewNormalMatrix

\* C2 (stated as claimed; the code breaks it).  zoom(delta) moves eye and
\* target by delta along the normalized eye-to-target direction, towards the
\* target for a positive delta; from the fresh camera zoom(2) gives
\* eye = (0,0,-8) and target = (0,0,2).
C2_ZoomTowardsTarget ==
    op.name = "zoom" =>
        LET d == Scale(Normalize(Subtract(pre.cam._target, pre.cam._eye)), op.arg)
        IN  /\ cam._eye = Add(pre.cam._eye, d)
            /\ cam._target = Add(pre.cam._target, d)
            /\ (pre.cam._eye = Vec3(0, 0, -10 * One) /\ pre.cam._target = Vec3(0, 0, 0)
                    /\ op.arg = 2 * One)
                => (cam._eye = Vec3(0, 0, -8 * One) /\ cam._target = Vec3(0, 0, 2 * One))

\* C3 (as amended).  viewFit sets target to the centre of the box and, when
\* eye and target differed before the call, leaves eye at distance
\* |diagonal / tan(fitFOV)| from the new target, fitFOV taken whole and not
\* halved, in the direction eye had from target before the call.
C3_ViewFitFullAngle ==
    op.name = "viewFit" =>
        LET sca  == Abs(Div(BoxDiagonal(FitBox), TanDeg(FitAngle)))
            dir  == Normalize(Subtract(pre.cam._eye, pre.cam._target))
            span == Subtract(cam._eye, cam._target)
        IN  /\ cam._target = BoxCenter(FitBox)
            /\ pre.cam._eye # pre.cam._target =>
                  /\ Abs(Length(span) - sca) <= Tol
                  /\ sca >= One => VecNear(Normalize(span), dir, Tol)

C3_Witness ==
    /\ op.name = "viewFit"
    /\ op.arg = <<UnitBox, 60>>
    /\ pre.cam._eye = Vec3(3 * One, 0, -4 * One)
    /\ cam._target = Vec3(0, 0, 0)
    /\ Length(Subtract(cam._eye, cam._target)) = 2 * One

\* C3 (as first claimed).  The distance is diagonal / tan(fitFOV / 2); for the
\* box [-1,-1,-1, 1,1,1] and fitFOV = 90 it is diagonal / tan(45 degrees).
C3_ViewFitHalfAngle ==
    (op.name = "viewFit" /\ pre.cam._eye # pre.cam._target) =>
        /\ cam._target = BoxCenter(FitBox)
        /\ Abs(Length(Subtract(cam._eye, cam._target))
               - Div(BoxDiagonal(FitBox), TanHalfDeg(FitAngle))) <= Tol

\* C4.  Under the two pitch methods alone, with constrainPitch on and starting
\* from up = worldUp = (0,1,0), the dot product of up and worldUp is positive
\* in every reachable state.
C4_UpStaysUp == Dot(cam._up, cam._worldUp) > 0

C4_Witness ==
    /\ op.name \in {"pitch", "orbitPitch"}
    /\ nops >= 2
    /\ cam._constrainPitch
    /\ cam._up # pre.cam._up
    /\ Dot(cam._up, cam._worldUp) < One \div 10

\* C5.  Starting from the fresh camera, whose up is orthogonal to eye - target,
\* after any run of yaw, pitch, orbitYaw and orbitPitch under either value of
\* gimbalLock and constrainPitch, up is orthogonal to eye - target up to tolerance.
C5_UpOrthogonal == Abs(Dot(cam._up, Subtract(cam._eye, cam._target))) <= FrameTol

C5_Witness ==
    /\ op.name \in {"yaw", "orbitYaw"}
    /\ ~cam._gimbalLock
    /\ cam._up # Vec3(0, One, 0)
    /\ Subtract(cam._eye, cam._target) # Subtract(pre.cam._eye, pre.cam._target)

\* C6.  yaw never changes eye and always marks the camera and the viewer
\* dirty; it turns target - eye about the pivot by the angle (it never
\* rejects); with gimbalLock off it leaves up as it was, with gimbalLock on it
\* turns up about worldUp by the same angle.
C6_Yaw ==
    op.name = "yaw" =>
        LET pivot == IF pre.cam._gimbalLock THEN pre.cam._worldUp ELSE pre.cam._up
            view0 == Subtract(pre.cam._target, pre.cam._eye)
        IN  /\ cam._eye = pre.cam._eye
            /\ cam._dirty
            /\ viewer.dirty
            /\ VecNear(Subtract(cam._target, cam._eye), RotateAbout(pivot, op.arg, view0), FrameTol)
            /\ ~pre.cam._gimbalLock => cam._up = pre.cam._up
            /\ pre.cam._gimbalLock =>
                  VecNear(cam._up, RotateAbout(pre.cam._worldUp, op.arg, pre.cam._up), Tol)

C6_Witness ==
    /\ op.name = "yaw"
    /\ pre.cam._gimbalLock
    /\ cam._up # pre.cam._up
    /\ cam._target # pre.cam._target

\* C7.  Setting projectionType to "perspective" or "orthographic" selects that
\* projection, and the projectionType getter answers with it; any other token
\* leaves the selection and the rest of the camera as they were.
C7_ProjectionType ==
    op.name = "set projectionType" =>
        IF op.arg \in {"perspective", "orthographic"}
        THEN /\ cam._projection = (IF op.arg = "perspective" THEN Perspective ELSE Orthographic)
             /\ get_projectionType(World) = op.arg
             /\ cam = [pre.cam EXCEPT !._projection = cam._projection]
             /\ viewer = pre.viewer
        ELSE /\ cam = pre.cam
             /\ viewer = pre.viewer

C7_Witness ==
    /\ op.name = "set projectionType"
    /\ op.arg = "isometric"
    /\ cam._projection = Orthographic

\* C8 (stated as claimed; the code breaks it).  In every reachable state, the
\* fresh camera included, worldRight, worldUp and worldForward are
\* worldAxis[0..2], worldAxis[3..5] and worldAxis[6..8].
C8_WorldVectorsAreSlices ==
    /\ cam._worldRight = Vec3(At(cam._worldAxis, 0), At(cam._worldAxis, 1), At(cam._worldAxis, 2))
    /\ cam._worldUp = Vec3(At(cam._worldAxis, 3), At(cam._worldAxis, 4), At(cam._worldAxis, 5))
    /\ cam._worldForward = Vec3(At(cam._worldAxis, 6), At(cam._worldAxis, 7), At(cam._worldAxis, 8))

\* C9.  When constrainPitch is on and the candidate up of pitch or orbitPitch
\* has dot(candidate, worldUp) / 0.0174532925 below 1, the call changes
\* nothing: eye, target, up, the dirty flag and the viewer's redraw flag (and
\* every other field of the camera) are as before the call.
C9_RejectedPitchIsNoOp ==
    (op.name \in {"pitch", "orbitPitch"} /\ pre.cam._constrainPitch /\ op.out.angle < One) =>
        /\ cam = pre.cam
        /\ viewer = pre.viewer

C9_Witness ==
    /\ op.name = "pitch"
    /\ pre.cam._constrainPitch
    /\ op.out.angle < One
    /\ ~pre.cam._dirty
    /\ ~pre.viewer.dirty
    /\ op.out.newUp # pre.cam._up

\* C10 (stated as claimed; the code breaks it).  pan([a, b, c]) moves eye and
\* target by a R + b U + c F, with R = cross(normalize(eye - target),
\* normalize(up)), U = normalize(up) and F = normalize(eye - target) taken
\* before the call, whether or not b is zero.
C10_PanIsLocalTranslation ==
    op.name = "pan" =>
        LET F == Normalize(Subtract(pre.cam._eye, pre.cam._target))
            U == Normalize(pre.cam._up)
            R == Cross(F, U)
            d == Add(Add(Scale(R, op.arg[1]), Scale(U, op.arg[2])), Scale(F, op.arg[3]))
        IN  /\ cam._eye = Add(pre.cam._eye, d)
            /\ cam._target = Add(pre.cam._target, d)

====
